---- MODULE Spec2Model ----
(***************************************************************************)
(* Narrated-text playback controller of the vocabulary view                *)
(* (src/components/VocabularyList.tsx) with the audio helpers of           *)
(* src/utils/translations.ts and the speech request of src/App.tsx.        *)
(*                                                                         *)
(* Every handler is an async function: it runs atomically up to its next   *)
(* await, and the continuation after the await is a separate step.  The    *)
(* promises of AudioContext.suspend()/resume() resolve in the order the    *)
(* calls were made, so they are kept in one FIFO queue (ctxOps).           *)
(***************************************************************************)
EXTENDS Integers, Sequences, FiniteSets, TLC

\* ---------------------------------------------------------------- bounds
MaxSessions == 2      \* invocations of handlePlayStory that start a session
MaxSentences == 2     \* sentences of the longest narrated text
MaxPending == 1       \* suspend()/resume() promises not yet resolved

VARIABLES
    playbackState,        \* 'idle' | 'playing' | 'paused'   (useState, line 35)
    currentSentenceIdx,   \* -1 or the 0-based sentence index (useState, line 36)
    audioCtx,             \* audioCtxRef.current: "none" or the context's state
    stopPlaybackFlag,     \* stopPlaybackFlag.current
    ctxOps,               \* pending suspend()/resume() promises, oldest first
    sess,                 \* one record per started handlePlayStory invocation
    sources,              \* buffer sources started on the context, not yet ended
    last,                 \* history: the continuation that ran in the last step
    mounted,              \* the view is mounted (its effect cleanup has not run)
    dropped,              \* states of the contexts audioCtxRef pointed to before
    call,                 \* a call of one of the pure helpers and its result
    app,                  \* App.tsx: the collections in memory and in storage
    ui                    \* useState values of the view a specification is about

vars == <<playbackState, currentSentenceIdx, audioCtx, stopPlaybackFlag,
          ctxOps, sess, sources, last, mounted, dropped, call, app, ui>>

\* What the playback handlers never touch.
others == <<call, app, ui>>

\* ------------------------------------------------- splitSentences (pure)
Terminal(c) == c \in {".", "!", "?"}
White(c) == c \in {" ", "\n"}

\* First position >= p of t whose character is not of the wanted class
\* (Len(t)+1 when the run reaches the end): the greedy extent of [..]+ .
RECURSIVE RunEnd(_, _, _)
RunEnd(t, p, term) ==
    IF p > Len(t) \/ Terminal(t[p]) # term THEN p ELSE RunEnd(t, p + 1, term)

\* /[^.!?]+[.!?]+(\s|$)|[^.!?]+$/ anchored at p: the position after the match,
\* or 0 when neither alternative matches at p.
MatchAt(t, p) ==
    LET a == RunEnd(t, p, FALSE)
        b == RunEnd(t, a, TRUE)
    IN  IF a = p THEN 0
        ELSE IF b > a /\ b <= Len(t) /\ White(t[b]) THEN b + 1
        ELSE IF b > a /\ b > Len(t) THEN b
        ELSE IF a > Len(t) THEN a
        ELSE 0

\* Mutant of MatchAll: the matches come out last first.
RECURSIVE MatchAllReversed(_, _)
MatchAllReversed(t, p) ==
    IF p > Len(t) THEN <<>>
    ELSE LET m == MatchAt(t, p)
         IN  IF m = 0 THEN MatchAllReversed(t, p + 1)
             ELSE MatchAllReversed(t, m) \o <<SubSeq(t, p, m - 1)>>

\* String.prototype.match with the g flag: all matches, left to right.
RECURSIVE MatchAll(_, _)
MatchAll(t, p) ==
    IF p > Len(t) THEN <<>>
    ELSE LET m == MatchAt(t, p)
         IN  IF m = 0 THEN MatchAll(t, p + 1)
             ELSE <<SubSeq(t, p, m - 1)>> \o MatchAll(t, m)

\* Mutant of Trim: the sentences are not trimmed.
NoTrim(s) == s

RECURSIVE TrimLeft(_)
TrimLeft(s) == IF s # <<>> /\ White(Head(s)) THEN TrimLeft(Tail(s)) ELSE s

RECURSIVE TrimRight(_)
TrimRight(s) ==
    IF s # <<>> /\ White(s[Len(s)]) THEN TrimRight(SubSeq(s, 1, Len(s) - 1)) ELSE s

Trim(s) == TrimRight(TrimLeft(s))

NonEmpty(s) == s # <<>>

splitSentences(text) ==
    IF text = <<>> THEN <<>>
    ELSE LET m == MatchAll(text, 1)
         IN  IF m = <<>> THEN <<text>>
             ELSE SelectSeq([k \in 1..Len(m) |-> Trim(m[k])], NonEmpty)

\* sentences[i].replace(/[\[\]]/g, '')
NotBracket(c) == c \notin {"[", "]"}
cleanText(sentence) == SelectSeq(sentence, NotBracket)

\* ------------------------------------------------------- narrated texts
Unit == <<"[", "a", "]", ".", " ">>

RECURSIVE StoryText(_)
StoryText(k) == IF k = 0 THEN <<>> ELSE StoryText(k - 1) \o Unit

\* An empty story (contentLearning || "", App.tsx line 417) and one of
\* MaxSentences sentences.
PlayTexts == {StoryText(0), StoryText(MaxSentences)}

\* ----------------------------------------------------------- PCM decoder
\* new Int16Array(data.buffer): a RangeError unless the byte length is even;
\* sample k is the little-endian signed 16-bit value of bytes 2k, 2k+1
\* (kept as the integer numerator of value / 32768).
\* Mutant of Int16At: the samples are read as unsigned 16-bit integers.
Uint16At(data, k) == data[2 * k + 1] + 256 * data[2 * k + 2]

Int16At(data, k) ==
    LET u == data[2 * k + 1] + 256 * data[2 * k + 2]
    IN  IF u >= 32768 THEN u - 65536 ELSE u

decodeAudioData(data) ==
    IF Len(data) % 2 # 0 THEN [ok |-> FALSE, frames |-> <<>>]
    ELSE [ok |-> TRUE,
          frames |-> [k \in 1..(Len(data) \div 2) |-> Int16At(data, k - 1)]]

\* What generateSpeech can resolve to: null (also after a caught request
\* failure), a string atob rejects, or base64 of some bytes.
NoAudio == [kind |-> "null", bytes |-> <<>>]
BadBase64 == [kind |-> "invalid", bytes |-> <<>>]
Pcm == [kind |-> "base64", bytes |-> <<0, 128>>]      \* one frame, -32768
OddBytes == [kind |-> "base64", bytes |-> <<255>>]
Responses == {NoAudio, BadBase64, Pcm, OddBytes}

\* ---------------------------------------------------------------- state
\* Values of the history variable last: nothing to report, or what the last
\* continuation was (op), for which session, how the speech answer was taken
\* (kind) and, when the session left its loop at the end of the text, how
\* many sentences it had gone through (n, else -1).
None == [op |-> "-", sid |-> 0, kind |-> "-", n |-> -1]
Did(op) == [op |-> op, sid |-> 0, kind |-> "-", n |-> -1]

\* No helper call under way; the application state left out of account.
NoCall == [fn |-> "-"]
NoApp == [pc |-> "-"]
NoUi == [view |-> "-"]

\* The view after its first render.
InitView ==
    /\ playbackState = "idle"
    /\ currentSentenceIdx = -1
    /\ audioCtx = "none"
    /\ stopPlaybackFlag = FALSE
    /\ ctxOps = <<>>
    /\ sess = <<>>
    /\ sources = {}
    /\ last = None
    /\ mounted = TRUE
    /\ dropped = {}

Init ==
    /\ InitView
    /\ call = NoCall
    /\ app = NoApp
    /\ ui = NoUi

Sessions == 1..Len(sess)

InLoop(s) == sess[s].pc \in {"fetch", "ended"}

\* spoken: the cleanText sent with the speech request in flight.
\* requested (history): the indices the session has set and requested.
\* nStarted (history): the sources started for the current sentence.
\* stopped (history): handleStopPlayback ran while the session was under way.
NewSession(text, pc) ==
    [pc |-> pc, text |-> text, sentences |-> <<>>, i |-> 0, spoken |-> <<>>,
     requested |-> <<>>, nStarted |-> 0, stopped |-> FALSE]

\* An invocation that has returned ("done") or thrown ("failed"): its locals
\* are gone.
Returned(pc) == NewSession(<<>>, pc)

\* Sessions a call of handleStopPlayback interrupts: those past line 212.
MarkStopped(S) ==
    [s \in DOMAIN S |->
        IF S[s].pc \in {"resumeWait", "fetch", "ended"}
        THEN [S[s] EXCEPT !.stopped = TRUE] ELSE S[s]]

CtxOp(op, k, s) == [op |-> op, k |-> k, sid |-> s]

\* ------------------------------------------------ handlePlayStory's loop
\* if (stopPlaybackFlag.current) ...   (lines 226, 235, 242)
StopRequested(flag) == flag

\* Mutant of BreakLoop: setCurrentSentenceIdx(-1) of line 260 is missing.
BreakLoopKeepsIndex(s, S) ==
    [st |-> "idle", idx |-> currentSentenceIdx,
     sess |-> [S EXCEPT ![s] = Returned("done")]]

\* break (lines 226, 235) and the end of the loop, then lines 259-260.
BreakLoop(s, S) ==
    [st |-> "idle", idx |-> -1,
     sess |-> [S EXCEPT ![s] = Returned("done")]]

\* Lines 225-233 for iteration j (setCurrentSentenceIdx(j), then the speech
\* request), or lines 259-260 when the loop is left: the new status,
\* sentence index and session table.
LoopStep(s, j, flag, st, S) ==
    IF j < Len(S[s].sentences) /\ ~StopRequested(flag)
    THEN [st |-> st, idx |-> j,
          sess |-> [S EXCEPT ![s].pc = "fetch", ![s].i = j, ![s].nStarted = 0,
                             ![s].spoken = cleanText(S[s].sentences[j + 1]),
                             ![s].requested = Append(@, j)]]
    ELSE BreakLoop(s, S)

\* Mutant of CatchAndContinue: the try block encloses the loop instead of its
\* body, so the first failure ends the narration.
CatchOutsideLoop(s, flag, st, S) == BreakLoop(s, S)

\* catch (e) { console.error(...) } of lines 254-256: the iteration ends and
\* the loop goes on with the next index.
CatchAndContinue(s, flag, st, S) == LoopStep(s, S[s].i + 1, flag, st, S)

\* Mutant of SkipSentence: break instead of continue when there is no audio.
SkipEndsSession(s, flag, st, S) == BreakLoop(s, S)

\* continue (line 236)
SkipSentence(s, flag, st, S) == LoopStep(s, S[s].i + 1, flag, st, S)

\* resolve() of onended (line 250), then the next iteration.
NextSentence(s, flag, st, S) == LoopStep(s, S[s].i + 1, flag, st, S)

\* Mutant of StartSource: the promise is resolved right after start() instead
\* of in onended, so the loop goes on while the source plays.
StartSourceNoWait(s, flag, st, S) == LoopStep(s, S[s].i + 1, flag, st, S)

\* source.start() with onended = resolve (lines 247-251): the session waits
\* for the 'ended' event of its source.
StartSource(s, flag, st, S) ==
    [st |-> st, idx |-> currentSentenceIdx,
     sess |-> [S EXCEPT ![s].pc = "ended", ![s].nStarted = @ + 1]]

\* What last reports of a step of session s that led to r.
After(op, s, kind, r) ==
    IF r.sess[s].pc = "done" /\ ~stopPlaybackFlag
    THEN [op |-> op, sid |-> s, kind |-> kind, n |-> Len(sess[s].requested)]
    ELSE IF kind = "-" THEN None
    ELSE [op |-> op, sid |-> s, kind |-> kind, n |-> -1]

\* setPlaybackState / setCurrentSentenceIdx do nothing once the view is
\* unmounted; the invocations run on all the same.
Apply(r) ==
    /\ playbackState' = IF mounted THEN r.st ELSE playbackState
    /\ currentSentenceIdx' = IF mounted THEN r.idx ELSE currentSentenceIdx
    /\ sess' = r.sess

\* Line 223 and the first pass through the loop head.
BeginLoop(s, S, flag) ==
    LoopStep(s, 0, flag, "playing",
             [S EXCEPT ![s].sentences = splitSentences(S[s].text)])

\* Mutant of NeedsContext: every handlePlayStory makes a context of its own.
AlwaysNewContext(state) == TRUE

\* !audioCtxRef.current || audioCtxRef.current.state === 'closed' (line 217)
NeedsContext(state) == state \in {"none", "closed"}

\* close() was called on the context and its promise is pending: the state
\* attribute still shows the old state, suspend() and resume() reject.
Closing == \E k \in 1..Len(ctxOps) : ctxOps[k].op = "close"

\* Lines 212-214 ran and line 218 or 220 threw: the invocation ends as a
\* rejected promise.
Thrown(s, S) ==
    [st |-> "playing", idx |-> -1, sess |-> [S EXCEPT ![s] = Returned("failed")]]

\* Lines 212-221: setPlaybackState('playing'), the flag reset and the context
\* initialisation, up to the first await.  created: whether the AudioContext
\* constructor returns (TRUE) or throws (FALSE).
PlayStart(s, S, created) ==
    /\ stopPlaybackFlag' = FALSE
    /\ last' = None
    /\ UNCHANGED <<mounted, others>>
    /\ IF NeedsContext(audioCtx)
       THEN IF created
            THEN /\ audioCtx' = "running"
                 /\ dropped' = IF audioCtx = "none" THEN dropped
                                ELSE dropped \cup {audioCtx}
                 /\ Apply(BeginLoop(s, S, FALSE))
                 /\ UNCHANGED <<ctxOps, sources>>
            ELSE /\ Apply(Thrown(s, S))
                 /\ UNCHANGED <<audioCtx, ctxOps, sources, dropped>>
       ELSE IF audioCtx = "suspended"
            THEN IF Closing
                 THEN /\ created                 \* resume() rejects
                      /\ Apply(Thrown(s, S))
                      /\ UNCHANGED <<audioCtx, ctxOps, sources, dropped>>
                 ELSE /\ created
                      /\ Len(ctxOps) < MaxPending
                      /\ ctxOps' = Append(ctxOps, CtxOp("resume", "playResume", s))
                      /\ Apply([st |-> "playing", idx |-> -1,
                                sess |-> [S EXCEPT ![s].pc = "resumeWait"]])
                      /\ UNCHANGED <<audioCtx, sources, dropped>>
            ELSE /\ created
                 /\ Apply(BeginLoop(s, S, FALSE))
                 /\ UNCHANGED <<audioCtx, ctxOps, sources, dropped>>

\* ------------------------------------------------------------- handlers
\* handleResumePlayback up to its await (lines 191-193).
ResumeCall ==
    IF audioCtx = "suspended"
    THEN /\ Len(ctxOps) < MaxPending
         /\ ctxOps' = Append(ctxOps, CtxOp("resume", "resume", 0))
    ELSE UNCHANGED ctxOps

\* handlePlayStory(text), lines 205-210 and, when idle, on to the first await.
StartFresh(text, created) ==
    /\ Len(sess) < MaxSessions
    /\ LET s == Len(sess) + 1
       IN  IF playbackState = "playing"
           THEN \* await handleStopPlayback()
                /\ created
                /\ stopPlaybackFlag' = TRUE
                /\ last' = None
                /\ IF audioCtx # "none"
                   THEN /\ Len(ctxOps) < MaxPending
                        /\ ctxOps' = Append(ctxOps, CtxOp("suspend", "playStop", s))
                        /\ sess' = Append(MarkStopped(sess),
                                          NewSession(text, "stopWait"))
                   ELSE /\ ctxOps' = ctxOps
                        /\ sess' = Append(MarkStopped(sess),
                                          NewSession(text, "grace"))
                /\ UNCHANGED <<playbackState, currentSentenceIdx, audioCtx, sources,
                               mounted, dropped, others>>
           ELSE PlayStart(s, Append(sess, NewSession(text, "init")), created)

\* Mutant of ResumePaused: the test of line 200 is missing, so a paused
\* narration is started afresh.
PausedStartsFresh(text, created) == StartFresh(text, created)

\* Lines 200-203: handleResumePlayback(); return.
ResumePaused(text, created) ==
    /\ created
    /\ ResumeCall
    /\ last' = None
    /\ UNCHANGED <<playbackState, currentSentenceIdx, audioCtx,
                   stopPlaybackFlag, sess, sources, mounted, dropped, others>>

Play(text, created) ==
    /\ mounted
    /\ IF playbackState = "paused"
       THEN ResumePaused(text, created)
       ELSE StartFresh(text, created)

\* handleStopPlayback up to its await (lines 175-178), from the stop button
\* or the back-to-library button.
Stop ==
    /\ mounted
    /\ stopPlaybackFlag' = TRUE
    /\ last' = None
    /\ sess' = MarkStopped(sess)
    /\ IF audioCtx # "none"
       THEN /\ Len(ctxOps) < MaxPending
            /\ ctxOps' = Append(ctxOps, CtxOp("suspend", "stop", 0))
       ELSE UNCHANGED ctxOps
    /\ UNCHANGED <<playbackState, currentSentenceIdx, audioCtx, sources,
                   mounted, dropped, others>>

\* handlePausePlayback up to its await (lines 184-186); the pause button is
\* rendered only while playbackState is 'playing' (line 408).
Pause ==
    /\ mounted
    /\ playbackState = "playing"
    /\ IF audioCtx = "running"
       THEN /\ Len(ctxOps) < MaxPending
            /\ ctxOps' = Append(ctxOps, CtxOp("suspend", "pause", 0))
       ELSE UNCHANGED ctxOps
    /\ last' = None
    /\ UNCHANGED <<playbackState, currentSentenceIdx, audioCtx, stopPlaybackFlag,
                   sess, sources, mounted, dropped, others>>

\* State of the context once the oldest pending promise resolves.
CtxAfter(op) ==
    IF op = "suspend" /\ audioCtx = "running" THEN "suspended"
    ELSE IF op = "resume" /\ audioCtx = "suspended" THEN "running"
    ELSE IF op = "close" THEN "closed"
    ELSE audioCtx

\* Lines 179-180, after await suspend().
StopDone(S) == [st |-> "idle", idx |-> -1, sess |-> S]

\* Line 187, after await suspend().
PauseDone(S) == [st |-> "paused", idx |-> currentSentenceIdx, sess |-> S]

\* Mutant of ResumeDone: resuming requests the current sentence again.
ResumeRefetches(S) ==
    [st |-> "playing", idx |-> currentSentenceIdx,
     sess |-> [s \in DOMAIN S |->
                 IF S[s].pc \in {"fetch", "ended"}
                 THEN [S[s] EXCEPT !.pc = "fetch",
                                   !.requested = Append(@, S[s].i)]
                 ELSE S[s]]]

\* Line 194, after await resume().
ResumeDone(S) == [st |-> "playing", idx |-> currentSentenceIdx, sess |-> S]

\* History: the sources that were playing when a stop completed.
Cut(srcs) == {[src EXCEPT !.cut = TRUE] : src \in srcs}

\* The oldest suspend()/resume() promise resolves and the handler that
\* awaits it runs on.
CtxResolve ==
    /\ ctxOps # <<>>
    /\ LET o == Head(ctxOps)
       IN  /\ audioCtx' = CtxAfter(o.op)
           /\ ctxOps' = Tail(ctxOps)
           /\ IF o.k = "unmount"               \* nothing awaits close()
              THEN /\ last' = None
                   /\ UNCHANGED <<playbackState, currentSentenceIdx, sess, sources>>
              ELSE IF o.k = "stop"
              THEN /\ Apply(StopDone(sess))
                   /\ sources' = Cut(sources)
                   /\ last' = None
              ELSE IF o.k = "pause"
              THEN /\ Apply(PauseDone(sess))
                   /\ last' = None
                   /\ UNCHANGED sources
              ELSE IF o.k = "resume"
              THEN /\ Apply(ResumeDone(sess))
                   /\ last' = Did("resumed")
                   /\ UNCHANGED sources
              ELSE IF o.k = "playStop"             \* then line 209
              THEN /\ Apply(StopDone([sess EXCEPT ![o.sid].pc = "grace"]))
                   /\ sources' = Cut(sources)
                   /\ last' = None
              ELSE /\ Apply(BeginLoop(o.sid, sess, stopPlaybackFlag))  \* line 220, then 223
                   /\ last' = None
                   /\ UNCHANGED sources
    /\ UNCHANGED <<stopPlaybackFlag, mounted, dropped, others>>

\* The cleanup of the effect of lines 53-59 runs: the view is unmounted and
\* close() is called on the context, if there is one.
Unmount ==
    /\ mounted
    /\ mounted' = FALSE
    /\ IF audioCtx # "none"
       THEN /\ Len(ctxOps) < MaxPending
            /\ ctxOps' = Append(ctxOps, CtxOp("close", "unmount", 0))
       ELSE UNCHANGED ctxOps
    /\ last' = None
    /\ UNCHANGED <<playbackState, currentSentenceIdx, audioCtx, stopPlaybackFlag,
                   sess, sources, dropped, others>>

\* The 50 ms timer of line 209 fires: lines 212-221.
GraceTimer(s, created) ==
    /\ s \in Sessions
    /\ sess[s].pc = "grace"
    /\ PlayStart(s, sess, created)

\* await generateSpeech(...) returns: lines 235-252 up to the await of the
\* playback promise.  decodeAudioData has no await of its own, so its promise
\* is settled when it returns and no other handler runs between line 235 and
\* line 242, whose test of the flag therefore gives what line 235 gave.
\* r: what the speech service answered; started: whether
\* createBufferSource/connect/start return (TRUE) or throw (FALSE).
SpeechResolved(s, r, started) ==
    /\ s \in Sessions
    /\ sess[s].pc = "fetch"
    /\ LET buf == decodeAudioData(r.bytes)
           skip == SkipSentence(s, stopPlaybackFlag, playbackState, sess)
           caught == CatchAndContinue(s, stopPlaybackFlag, playbackState, sess)
       IN  IF StopRequested(stopPlaybackFlag)                 \* line 235
           THEN /\ started
                /\ Apply(BreakLoop(s, sess))
                /\ last' = None
                /\ UNCHANGED sources
           ELSE IF r.kind = "null"                             \* line 236
           THEN /\ started
                /\ Apply(skip)
                /\ last' = After("answer", s, "null", skip)
                /\ UNCHANGED sources
           ELSE IF r.kind = "invalid" \/ ~buf.ok \/ audioCtx = "none"
           THEN /\ started                                    \* lines 238, 239 throw
                /\ Apply(caught)
                /\ last' = After("answer", s, "error", caught)
                /\ UNCHANGED sources
           ELSE IF started                                     \* lines 247-251
           THEN /\ Apply(StartSource(s, stopPlaybackFlag, playbackState, sess))
                /\ sources' = sources \cup
                      {[sid |-> s, idx |-> sess[s].i, frames |-> Len(buf.frames),
                        cut |-> FALSE]}
                /\ last' = None
           ELSE /\ Apply(caught)
                /\ last' = After("answer", s, "error", caught)
                /\ UNCHANGED sources
    /\ UNCHANGED <<audioCtx, stopPlaybackFlag, ctxOps, mounted, dropped, others>>

\* A started source plays to its end while the context runs; its onended
\* handler resolves the promise of line 241 and the loop goes on.
SourceEnded(src) ==
    /\ src \in sources
    /\ audioCtx = "running"
    /\ sources' = sources \ {src}
    /\ IF sess[src.sid].pc = "ended" /\ sess[src.sid].i = src.idx
       THEN LET next == NextSentence(src.sid, stopPlaybackFlag, playbackState, sess)
            IN  /\ Apply(next)
                /\ last' = After("ended", src.sid, "-", next)
       ELSE /\ last' = None
            /\ UNCHANGED <<playbackState, currentSentenceIdx, sess>>
    /\ UNCHANGED <<audioCtx, stopPlaybackFlag, ctxOps, mounted, dropped, others>>

Next ==
    \/ \E text \in PlayTexts, created \in BOOLEAN : Play(text, created)
    \/ Stop
    \/ Pause
    \/ CtxResolve
    \/ \E s \in 1..MaxSessions, created \in BOOLEAN : GraceTimer(s, created)
    \/ \E s \in 1..MaxSessions, r \in Responses, started \in BOOLEAN :
          SpeechResolved(s, r, started)
    \/ \E src \in sources : SourceEnded(src)

Spec == Init /\ [][Next]_vars

\* The same program when the user never presses the stop or back-to-library
\* button: every handleStopPlayback is the one of handlePlayStory (line 207).
NextReplay ==
    \/ \E text \in PlayTexts, created \in BOOLEAN : Play(text, created)
    \/ Pause
    \/ CtxResolve
    \/ \E s \in 1..MaxSessions, created \in BOOLEAN : GraceTimer(s, created)
    \/ \E s \in 1..MaxSessions, r \in Responses, started \in BOOLEAN :
          SpeechResolved(s, r, started)
    \/ \E src \in sources : SourceEnded(src)

SpecReplay == Init /\ [][NextReplay]_vars

\* The program with the teardown of the view: the handlers' continuations go
\* on running after the cleanup.
NextTeardown ==
    \/ \E text \in PlayTexts, created \in BOOLEAN : Play(text, created)
    \/ Stop
    \/ Pause
    \/ CtxResolve
    \/ Unmount
    \/ \E s \in 1..MaxSessions, created \in BOOLEAN : GraceTimer(s, created)
    \/ \E s \in 1..MaxSessions, r \in Responses, started \in BOOLEAN :
          SpeechResolved(s, r, started)
    \/ \E src \in sources : SourceEnded(src)

SpecTeardown == Init /\ [][NextTeardown]_vars

\* ------------------------------------------------------------ properties
SourcesOf(s) == {src \in sources : src.sid = s}

\* C1: within one session the sentences go through fetch-decode-play one at a
\* time and in order: while the request for a sentence is in flight no
\* source of the session is playing (the source of the sentence before has
\* ended or was never started), a session never has two sources, a playing
\* source is the one of the current sentence, and the requests were issued
\* for 0, 1, 2, ... in this order.
C1_OneSentenceAtATime ==
    \A s \in Sessions :
        /\ sess[s].pc = "fetch" => SourcesOf(s) = {}
        /\ Cardinality(SourcesOf(s)) <= 1
        /\ \A src \in SourcesOf(s) : sess[s].pc = "ended" /\ src.idx = sess[s].i
        /\ InLoop(s) =>
              sess[s].requested = [k \in 1..(sess[s].i + 1) |-> k - 1]

\* A session is playing its second sentence, after the first one's step.
C1_Witness ==
    \E s \in Sessions :
        /\ sess[s].pc = "ended"
        /\ sess[s].i = 1
        /\ sess[s].requested = <<0, 1>>
        /\ SourcesOf(s) # {}
        /\ audioCtx = "running"

\* Session a issues a speech request, or starts an audio source, in this step.
IssuesRequest(a) ==
    /\ sess'[a].pc = "fetch"
    /\ sess[a].pc # "fetch" \/ sess'[a].i # sess[a].i

StartsSource(a) == sess'[a].pc = "ended" /\ sess[a].pc # "ended"

\* C2 (SpecReplay): once the session b started by a handlePlayStory call made
\* in status 'playing' has issued a speech request, a session a that this
\* call stopped issues no request, starts no source and outputs no audio.
C2_OldSessionSilent ==
    /\ [][\A a \in Sessions, b \in Sessions :
            (a < b /\ sess[a].stopped /\ sess[b].requested # <<>>)
                => ~IssuesRequest(a) /\ ~StartsSource(a)]_vars
    /\ [](\A a \in Sessions, b \in Sessions :
            (a < b /\ sess[a].stopped /\ sess[b].requested # <<>>)
                => ~(audioCtx = "running" /\ SourcesOf(a) # {}))

\* C3: a session during which handleStopPlayback was called never again
\* issues a speech request or starts an audio source (so the answer to a
\* request in flight at the stop is never decoded and played).
C3_StoppedSessionDead ==
    [][\A a \in Sessions :
          sess[a].stopped => ~IssuesRequest(a) /\ ~StartsSource(a)]_vars

\* C4: a source that was playing when a stop completed (the suspend() of
\* handleStopPlayback resolved) is never output again: the context never
\* runs while such a source is still in it.
C4_StoppedAudioDiscarded ==
    ~(audioCtx = "running" /\ \E src \in sources : src.cut)

\* Nothing is pending: no suspend()/resume() promise, no timer, no speech
\* request, and no source that the running context will bring to its end.
Settled ==
    /\ ctxOps = <<>>
    /\ \A s \in Sessions : sess[s].pc \in {"done", "failed", "ended"}
    /\ audioCtx = "running" => sources = {}

\* C5, for a stop() after which nothing is pending: a handleStopPlayback step
\* (it sets the flag and changes no status by itself) taken in status
\* 'playing' that leaves the program settled leaves it with status idle and
\* current index -1.
C5_StopLeadsToIdle ==
    [][(playbackState = "playing" /\ stopPlaybackFlag' /\ sess' = MarkStopped(sess)
          /\ UNCHANGED <<playbackState, currentSentenceIdx, audioCtx, sources>>
          /\ Settled')
         => (playbackState' = "idle" /\ currentSentenceIdx' = -1)]_vars

\* C6: a handlePlayStory invocation whose context creation fails leaves the
\* status idle and has issued no speech request.
C6_FailedAcquisitionStaysIdle ==
    [][\A s \in 1..Len(sess') :
          (sess'[s].pc = "failed" /\ (s > Len(sess) \/ sess[s].pc # "failed"))
             => (playbackState' = "idle" /\ sess'[s].requested = <<>>)]_vars

NoDuplicates(q) == \A x, y \in 1..Len(q) : x # y => q[x] # q[y]

\* The continuation of handlePausePlayback or handleResumePlayback runs.
PauseOrResumeCompletes ==
    /\ ctxOps # <<>>
    /\ Head(ctxOps).k \in {"pause", "resume"}
    /\ ctxOps' = Tail(ctxOps)

\* pause() or resume() is called (lines 184-186, 191-193, 200-202).
PauseOrResumeCalled ==
    \/ Pause
    \/ playbackState = "paused" /\ \E text \in PlayTexts : Play(text, TRUE)

\* C7: the pause and resume handlers, call and continuation, leave the
\* current sentence index, every session's position, its requests and its
\* sources as they are; and in one session no sentence is requested twice
\* and no sentence gets more than one source.
C7_PauseResumeKeepSentence ==
    /\ [][(PauseOrResumeCalled \/ PauseOrResumeCompletes)
            => /\ currentSentenceIdx' = currentSentenceIdx
               /\ sess' = sess
               /\ sources' = sources]_vars
    /\ [](\A s \in Sessions :
            /\ NoDuplicates(sess[s].requested)
            /\ sess[s].nStarted <= 1
            /\ Cardinality(SourcesOf(s)) <= 1)

\* Playback was paused and has just been resumed while sentence 0's source
\* is in the context.
C7_Witness ==
    /\ last = Did("resumed")
    /\ playbackState = "playing"
    /\ audioCtx = "running"
    /\ currentSentenceIdx = 0
    /\ \E s \in Sessions :
          /\ sess[s].pc = "ended" /\ sess[s].i = 0 /\ sess[s].requested = <<0>>
          /\ SourcesOf(s) # {}

\* C8: a session that no handleStopPlayback interrupted leaves its loop only
\* at the end of its text, having set the current index to 0, 1, ..., n-1 in
\* this order (each with its speech request), and with this step the status
\* is idle and the current index -1; every new request of a session is for
\* the index after its last one and sets the current index to it.
C8_NaturalCompletion ==
    [][\A s \in Sessions :
          /\ (InLoop(s) /\ ~sess[s].stopped /\ sess'[s].pc = "done")
                => /\ sess[s].requested =
                         [k \in 1..Len(sess[s].sentences) |-> k - 1]
                   /\ playbackState' = "idle"
                   /\ currentSentenceIdx' = -1
          /\ (InLoop(s) /\ IssuesRequest(s))
                => /\ sess'[s].i = sess[s].i + 1
                   /\ sess'[s].requested = Append(sess[s].requested, sess'[s].i)
                   /\ currentSentenceIdx' = sess'[s].i]_vars

\* A session has just left its loop at the end of a text of MaxSentences
\* sentences, with no stop since it began.
C8_Witness ==
    /\ last.n = MaxSentences
    /\ last.op \in {"answer", "ended"}
    /\ sess[last.sid].pc = "done"
    /\ playbackState = "idle"
    /\ currentSentenceIdx = -1
    /\ ~stopPlaybackFlag

\* The session's step on an answer: it goes on with the next sentence, or
\* returns after the last one with status idle and index -1; no source is
\* started and, unless the session returns, the status stays as it is.
Skipped(s) ==
    /\ sources' = sources
    /\ IF sess[s].i + 1 < Len(sess[s].sentences)
       THEN /\ sess'[s].pc = "fetch"
            /\ sess'[s].i = sess[s].i + 1
            /\ sess'[s].nStarted = 0
            /\ currentSentenceIdx' = sess[s].i + 1
            /\ playbackState' = playbackState
       ELSE /\ sess'[s].pc = "done"
            /\ playbackState' = "idle"
            /\ currentSentenceIdx' = -1

\* C9: when the speech service returns no audio for sentence i and no stop
\* was requested, the session starts no source for i and goes on with
\* sentence i+1 with the status unchanged, or completes when i is the last.
C9_NoAudioSkips ==
    [][\A s \in Sessions :
          (~stopPlaybackFlag /\ sess'[s] # sess[s] /\ SpeechResolved(s, NoAudio, TRUE))
             => Skipped(s)]_vars

\* Sentence 0 got no audio and the session is requesting sentence 1.
C9_Witness ==
    /\ last.op = "answer" /\ last.kind = "null"
    /\ sess[last.sid].pc = "fetch"
    /\ sess[last.sid].i = 1
    /\ sess[last.sid].nStarted = 0
    /\ playbackState = "playing"
    /\ currentSentenceIdx = 1

\* C10: a failed speech request (generateSpeech catches it and returns null),
\* a payload atob rejects, a payload of odd byte length and a failure to
\* start the source all end the iteration only: the session goes on with the
\* next sentence or returns with status idle, and never ends as "failed".
C10_FailureSkipsSentence ==
    [][\A s \in Sessions :
          /\ (~stopPlaybackFlag /\ sess'[s] # sess[s] /\
              (\/ SpeechResolved(s, NoAudio, TRUE)
               \/ SpeechResolved(s, BadBase64, TRUE)
               \/ SpeechResolved(s, OddBytes, TRUE)
               \/ SpeechResolved(s, Pcm, FALSE))) => Skipped(s)
          /\ (InLoop(s) => sess'[s].pc # "failed")]_vars

\* Decoding or starting sentence 0 failed and the session is requesting
\* sentence 1.
C10_Witness ==
    /\ last.op = "answer" /\ last.kind = "error"
    /\ sess[last.sid].pc = "fetch"
    /\ sess[last.sid].i = 1
    /\ playbackState = "playing"

\* C11 (SpecTeardown): every context audioCtxRef pointed to before the one
\* it points to now is closed, so at most one context is not closed; a step
\* that replaces the context is taken only when the old one is closed, and
\* handlePlayStory on an open context keeps it (resuming it when suspended).
C11_OneLiveContext ==
    /\ [](dropped \subseteq {"closed"})
    /\ [](audioCtx = "none" => dropped = {})
    /\ [][dropped' # dropped => (audioCtx = "closed" /\ audioCtx' = "running")]_vars
    /\ [][(audioCtx \in {"running", "suspended"} /\ Len(sess') > Len(sess))
            => (dropped' = dropped /\ audioCtx' = audioCtx)]_vars

\* A session runs on a context made after the first one was closed.
C11_Witness ==
    /\ dropped = {"closed"}
    /\ audioCtx = "running"
    /\ \E s \in Sessions : sess[s].pc = "fetch"

\* C12 (SpecTeardown): once the view is torn down and close() has resolved,
\* the controller has no context that is not closed.
C12_ClosedAtTeardown ==
    (~mounted /\ ~Closing) => audioCtx \in {"none", "closed"}

\* The changes of status the state machine allows.
AllowedChanges ==
    {<<"idle", "playing">>, <<"playing", "paused">>, <<"paused", "playing">>,
     <<"playing", "idle">>, <<"paused", "idle">>}

\* C13: every change of status is idle to playing, playing to paused, paused
\* to playing, or playing or paused to idle; and a pause() that finds the
\* context not running changes nothing.
C13_StatusTransitions ==
    /\ [][playbackState' # playbackState
            => <<playbackState, playbackState'>> \in AllowedChanges]_vars
    /\ [][(Pause /\ audioCtx # "running")
            => UNCHANGED <<playbackState, currentSentenceIdx, audioCtx, ctxOps>>]_vars

\* ------------------------------------------------- splitSentences alone
MaxLen == 5           \* length of the longest enumerated text

Alphabet == {"a", ".", "?", " "}

\* "Hello world. How are you?"
Example ==
    <<"H", "e", "l", "l", "o", " ", "w", "o", "r", "l", "d", ".", " ",
    "H", "o", "w", " ", "a", "r", "e", " ", "y", "o", "u", "?">>

Texts == UNION {[1..n -> Alphabet] : n \in 0..MaxLen} \cup {Example}

InitSplit ==
    /\ InitView
    /\ app = NoApp
    /\ ui = NoUi
    /\ call \in {[fn |-> "splitSentences", arg |-> t, done |-> FALSE, out |-> <<>>] :
                    t \in Texts}

\* const sentences = splitSentences(text)   (line 223)
Split ==
    /\ call.fn = "splitSentences"
    /\ ~call.done
    /\ call' = [call EXCEPT !.done = TRUE, !.out = splitSentences(call.arg)]
    /\ UNCHANGED <<playbackState, currentSentenceIdx, audioCtx, stopPlaybackFlag,
                   ctxOps, sess, sources, last, mounted, dropped, app, ui>>

NextSplit == Split

SpecSplit == InitSplit /\ [][NextSplit]_vars

SplitDone == call.fn = "splitSentences" /\ call.done

HasTerminal(t) == \E k \in 1..Len(t) : Terminal(t[k])

NotWhite(c) == ~White(c)

\* The text without its whitespace.
Squash(t) == SelectSeq(t, NotWhite)

RECURSIVE Flatten(_)
Flatten(q) == IF q = <<>> THEN <<>> ELSE Head(q) \o Flatten(Tail(q))

\* The text from its first to its last non-whitespace character.
Strip(t) ==
    LET ks == {k \in 1..Len(t) : NotWhite(t[k])}
    IN  IF ks = {} THEN <<>>
        ELSE SubSeq(t, CHOOSE k \in ks : \A j \in ks : k <= j,
                       CHOOSE k \in ks : \A j \in ks : k >= j)

\* C14: for a text with a terminal mark the sentences, concatenated and
\* without whitespace, are the text without whitespace.
C14_SplitKeepsContent ==
    (SplitDone /\ HasTerminal(call.arg))
        => Squash(Flatten(call.out)) = Squash(call.arg)

\* C15 as stated: a text without terminal mark yields exactly one sentence,
\* the trimmed text.
C15_NoTerminalOneSentence ==
    (SplitDone /\ ~HasTerminal(call.arg)) => call.out = <<Strip(call.arg)>>

\* C15 amended: a text without terminal mark that has a non-whitespace
\* character yields exactly one sentence, the trimmed text; an empty or
\* whitespace-only text yields no sentence.
C15_Amended ==
    (SplitDone /\ ~HasTerminal(call.arg))
        => call.out = IF Strip(call.arg) = <<>> THEN <<>> ELSE <<Strip(call.arg)>>

\* A text without terminal mark was split into its trimmed self.
C15_Witness ==
    /\ SplitDone
    /\ call.arg = <<" ", "a", " ", "a", " ">>
    /\ call.out = << <<"a", " ", "a">> >>

\* A unit: non-terminal characters, then terminal marks.
IsUnit(u) ==
    \E k \in 1..(Len(u) - 1) :
        /\ \A j \in 1..k : ~Terminal(u[j])
        /\ \A j \in (k + 1)..Len(u) : Terminal(u[j])

\* The ways to read t as units, each followed by one whitespace character or
\* by the end of the text.
RECURSIVE Parses(_)
Parses(t) ==
    (IF IsUnit(t) THEN {<<t>>} ELSE {}) \cup
    (IF t # <<>> /\ White(t[Len(t)]) /\ IsUnit(SubSeq(t, 1, Len(t) - 1))
     THEN {<<SubSeq(t, 1, Len(t) - 1)>>} ELSE {}) \cup
    UNION {{<<SubSeq(t, 1, k - 1)>> \o rest : rest \in Parses(SubSeq(t, k + 1, Len(t)))} :
              k \in {j \in 2..(Len(t) - 1) : White(t[j]) /\ IsUnit(SubSeq(t, 1, j - 1))}}

\* C16: a text made of units yields exactly these units, trimmed, in the
\* order of the text.
C16_UnitsInOrder ==
    SplitDone =>
        \A us \in Parses(call.arg) :
            call.out = [k \in 1..Len(us) |-> Strip(us[k])]

\* "Hello world. How are you?" was split into its two sentences.
C16_Witness ==
    /\ SplitDone
    /\ call.arg = Example
    /\ Parses(Example) # {}
    /\ call.out = <<SubSeq(Example, 1, 12), SubSeq(Example, 14, 25)>>

\* ------------------------------------------- the audio helpers alone
MaxBytes == 4         \* length of the longest enumerated payload

ByteVals == {0, 1, 127, 128, 255}

Payloads == UNION {[1..n -> ByteVals] : n \in 0..MaxBytes}

\* playAudio(base64Audio) (translations.ts, lines 154-182): decodeBase64 or
\* decodeAudioData throws inside the try; the catch logs and throws again, so
\* the promise playAudio returns is rejected.
playAudio(kind, bytes) ==
    LET buf == decodeAudioData(bytes)
    IN  IF kind = "invalid" \/ ~buf.ok
        THEN [rejected |-> TRUE, started |-> FALSE]
        ELSE [rejected |-> FALSE, started |-> TRUE]

\* handlePlayAudio (PracticeMode.tsx, lines 54-58; WordSearch.tsx, lines
\* 92-97): `if (audio) playAudio(audio)`, neither awaited nor caught, so a
\* rejection of playAudio's promise is handled by nobody.
handlePlayAudio(kind, bytes) ==
    IF kind = "null" THEN [played |-> FALSE, unhandled |-> FALSE]
    ELSE LET p == playAudio(kind, bytes)
         IN  [played |-> p.started, unhandled |-> p.rejected]

\* A call of decodeAudioData on a payload, or a click on a speaker button
\* with what generateSpeech answers (a base64 answer is never empty,
\* App.tsx line 442).
InitDecode ==
    /\ InitView
    /\ app = NoApp
    /\ ui = NoUi
    /\ call \in
          {[fn |-> "decodeAudioData", kind |-> "base64", arg |-> b,
            done |-> FALSE, out |-> <<>>] : b \in Payloads}
          \cup
          {[fn |-> "handlePlayAudio", kind |-> "base64", arg |-> b,
            done |-> FALSE, out |-> <<>>] : b \in Payloads \ {<<>>}}
          \cup
          {[fn |-> "handlePlayAudio", kind |-> k, arg |-> <<>>,
            done |-> FALSE, out |-> <<>>] : k \in {"null", "invalid"}}

Decode ==
    /\ call.fn = "decodeAudioData"
    /\ ~call.done
    /\ call' = [call EXCEPT !.done = TRUE, !.out = decodeAudioData(call.arg)]
    /\ UNCHANGED <<playbackState, currentSentenceIdx, audioCtx, stopPlaybackFlag,
                   ctxOps, sess, sources, last, mounted, dropped, app, ui>>

PlayClip ==
    /\ call.fn = "handlePlayAudio"
    /\ ~call.done
    /\ call' = [call EXCEPT !.done = TRUE,
                            !.out = handlePlayAudio(call.kind, call.arg)]
    /\ UNCHANGED <<playbackState, currentSentenceIdx, audioCtx, stopPlaybackFlag,
                   ctxOps, sess, sources, last, mounted, dropped, app, ui>>

NextDecode == Decode \/ PlayClip

SpecDecode == InitDecode /\ [][NextDecode]_vars

\* C17 (the single clip): a payload of odd byte length is not played and the
\* failure of its decoding reaches nobody as an unhandled error.
C17_OddPayloadContained ==
    (call.fn = "handlePlayAudio" /\ call.done /\ call.kind = "base64"
        /\ Len(call.arg) % 2 = 1)
        => (~call.out.played /\ ~call.out.unhandled)

\* The signed 16-bit integer with low byte lo and high byte hi.
Signed16(lo, hi) == ((lo + 256 * hi + 32768) % 65536) - 32768

MaxItems == 2         \* entries of the longest list of words or of stories

Ids == {1, 2}

\* A word with its optional groups and a story with its optional isSaved
\* (types of src/unnamed/part_000), the other fields left out.
Words == [id : Ids, groups : {"undefined", "g"}]
Stories == [id : Ids, isSaved : {"undefined", "true", "false"}]

ListsOf(S) == UNION {[1..n -> S] : n \in 0..MaxItems}

\* JSON.stringify leaves out a property whose value is undefined; reading
\* the property of the parsed object gives undefined again.
stringifyWord(w) ==
    IF w.groups = "undefined" THEN [f \in DOMAIN w \ {"groups"} |-> w[f]] ELSE w
parseWord(d) ==
    IF "groups" \in DOMAIN d THEN d ELSE d @@ [groups |-> "undefined"]
stringifyStory(t) == IF t.isSaved = "undefined" THEN [id |-> t.id] ELSE t
parseStory(d) ==
    IF "isSaved" \in DOMAIN d THEN d ELSE [id |-> d.id, isSaved |-> "undefined"]

stringifyWords(l) == [k \in 1..Len(l) |-> stringifyWord(l[k])]
parseWords(doc) == [k \in 1..Len(doc) |-> parseWord(doc[k])]
stringifyStories(l) == [k \in 1..Len(l) |-> stringifyStory(l[k])]
parseStories(doc) == [k \in 1..Len(doc) |-> parseStory(doc[k])]

\* localStorage.getItem: null (has = FALSE) or the stored document.
Absent == [has |-> FALSE, doc |-> <<>>]
Item(doc) == [has |-> TRUE, doc |-> doc]

\* setWords / setStories called since the last render.
NoUpdate == [has |-> FALSE, val |-> <<>>]
Update(val) == [has |-> TRUE, val |-> val]

\* The effect of lines 21-26 (load).
LoadEffect(a) ==
    [a EXCEPT
       !.setW = IF a.words_ls.has THEN Update(parseWords(a.words_ls.doc)) ELSE @,
       !.setS = IF a.stories_ls.has THEN Update(parseStories(a.stories_ls.doc)) ELSE @]

\* The effects of lines 29-31 and 33-35 (save), with the lists of the render
\* they belong to.
SaveWordsEffect(a) == [a EXCEPT !.words_ls = Item(stringifyWords(a.words))]
SaveStoriesEffect(a) == [a EXCEPT !.stories_ls = Item(stringifyStories(a.stories))]

\* Mutant of MountEffects: the load effect is declared after the save effects.
SaveBeforeLoad(a) == LoadEffect(SaveStoriesEffect(SaveWordsEffect(a)))

\* The effects of the first render, in the order of their declaration.
MountEffects(a) == SaveStoriesEffect(SaveWordsEffect(LoadEffect(a)))

\* A render that commits the pending updates, and the save effects whose
\* dependency changed.
Commit(a) ==
    LET b == [a EXCEPT !.words = IF a.setW.has THEN a.setW.val ELSE @,
                       !.stories = IF a.setS.has THEN a.setS.val ELSE @,
                       !.setW = NoUpdate, !.setS = NoUpdate, !.pc = "settled"]
        c == IF a.setW.has THEN SaveWordsEffect(b) ELSE b
    IN  IF a.setS.has THEN SaveStoriesEffect(c) ELSE c

view == <<playbackState, currentSentenceIdx, audioCtx, stopPlaybackFlag,
          ctxOps, sess, sources, last, mounted, dropped>>

\* The first render: empty lists (lines 12-13) over whatever an earlier run
\* of the application left in storage.  initial (history): that content.
InitApp ==
    /\ InitView
    /\ call = NoCall
    /\ ui = NoUi
    /\ \E w \in {Absent} \cup {Item(stringifyWords(l)) : l \in ListsOf(Words)},
          t \in {Absent} \cup {Item(stringifyStories(l)) : l \in ListsOf(Stories)} :
          app = [pc |-> "start", words |-> <<>>, stories |-> <<>>,
                 setW |-> NoUpdate, setS |-> NoUpdate,
                 words_ls |-> w, stories_ls |-> t,
                 initial |-> [words |-> w, stories |-> t], fresh |-> TRUE]

Mount ==
    /\ app.pc = "start"
    /\ app' = [MountEffects(app) EXCEPT !.pc = "dirty"]
    /\ UNCHANGED <<view, call, ui>>

Rerender ==
    /\ app.pc = "dirty"
    /\ app' = Commit(app)
    /\ UNCHANGED <<view, call, ui>>

\* A handler of lines 37-64 calls setWords or setStories with f(prev); the
\* new list is a new array, whatever it holds.  The history of the startup
\* ends here.
Forgotten == [words |-> Absent, stories |-> Absent]
MutateWords(a, w) ==
    [a EXCEPT !.setW = Update(w), !.pc = "dirty", !.fresh = FALSE,
              !.initial = Forgotten]
MutateStories(a, t) ==
    [a EXCEPT !.setS = Update(t), !.pc = "dirty", !.fresh = FALSE,
              !.initial = Forgotten]

MapWords(l, id, g) ==
    [k \in 1..Len(l) |-> IF l[k].id = id THEN [l[k] EXCEPT !.groups = g] ELSE l[k]]
MapStories(l, id, v) ==
    [k \in 1..Len(l) |-> IF l[k].id = id THEN [l[k] EXCEPT !.isSaved = v] ELSE l[k]]
\* Mutant of IsSavedStory: the filter of line 52 keeps every story.
KeepsEveryStory(t) == TRUE

\* s => s.isSaved (line 52) and !story.isSaved (line 51)
IsSavedStory(t) == t.isSaved = "true"

handleAddWord(w) ==
    /\ app.pc = "settled"
    /\ Len(app.words) < MaxItems
    /\ app' = MutateWords(app, <<w>> \o app.words)
    /\ UNCHANGED <<view, call, ui>>

handleUpdateWord(id, g) ==
    /\ app.pc = "settled"
    /\ app' = MutateWords(app, MapWords(app.words, id, g))
    /\ UNCHANGED <<view, call, ui>>

handleRemoveWord(id) ==
    /\ app.pc = "settled"
    /\ app' = MutateWords(app, SelectSeq(app.words, LAMBDA w : w.id # id))
    /\ UNCHANGED <<view, call, ui>>

\* A draft replaces the other drafts (lines 51-55).
AddStory(l, t) ==
    IF ~IsSavedStory(t) THEN <<t>> \o SelectSeq(l, IsSavedStory) ELSE <<t>> \o l

handleAddStory(t) ==
    /\ app.pc = "settled"
    /\ Len(AddStory(app.stories, t)) <= MaxItems
    /\ app' = MutateStories(app, AddStory(app.stories, t))
    /\ UNCHANGED <<view, call, ui>>

handleUpdateStory(id, v) ==
    /\ app.pc = "settled"
    /\ app' = MutateStories(app, MapStories(app.stories, id, v))
    /\ UNCHANGED <<view, call, ui>>

handleRemoveStory(id) ==
    /\ app.pc = "settled"
    /\ app' = MutateStories(app, SelectSeq(app.stories, LAMBDA t : t.id # id))
    /\ UNCHANGED <<view, call, ui>>

NextApp ==
    \/ Mount
    \/ Rerender
    \/ \E w \in Words : handleAddWord(w)
    \/ \E id \in Ids, g \in {"undefined", "g"} : handleUpdateWord(id, g)
    \/ \E id \in Ids : handleRemoveWord(id)
    \/ \E t \in Stories : handleAddStory(t)
    \/ \E id \in Ids, v \in {"undefined", "true", "false"} : handleUpdateStory(id, v)
    \/ \E id \in Ids : handleRemoveStory(id)

SpecApp == InitApp /\ [][NextApp]_vars

\* C19: in every settled state each stored document is the whole list in
\* memory (and parses back into it), and after startup alone the documents
\* that were stored are stored unchanged and are what memory holds.
C19_StoredEqualsMemory ==
    app.pc = "settled" =>
        /\ app.words_ls = Item(stringifyWords(app.words))
        /\ app.stories_ls = Item(stringifyStories(app.stories))
        /\ parseWords(app.words_ls.doc) = app.words
        /\ parseStories(app.stories_ls.doc) = app.stories
        /\ app.fresh =>
              /\ app.initial.words.has =>
                    (app.words_ls = app.initial.words
                       /\ Len(app.words) = Len(app.initial.words.doc))
              /\ app.initial.stories.has =>
                    (app.stories_ls = app.initial.stories
                       /\ Len(app.stories) = Len(app.initial.stories.doc))

\* Startup has restored two stored words and two stored stories.
C19_Witness ==
    /\ app.pc = "settled"
    /\ app.fresh
    /\ Len(app.words) = MaxItems
    /\ Len(app.stories) = MaxItems
    /\ app.words_ls.doc = app.initial.words.doc

WordTexts == {"a", "b"}
UUIDs == {"u1", "u2", "u3"}

\* null, and an object with at least a text.
Null == [null |-> TRUE]
IsWord(w) == "text" \in DOMAIN w

\* { ...a, ...b }: the properties of b override those of a.
Spread(a, b) == b @@ a

WordIds(l) == {l[k].id : k \in 1..Len(l)}
TextsOf(l) == {l[k].text : k \in 1..Len(l)}
StoryIds(l) == {l[k].id : k \in 1..Len(l)}

\* array.find: the first element with the property.
FindById(l, id) == l[CHOOSE k \in 1..Len(l) :
                       l[k].id = id /\ \A j \in 1..(k - 1) : l[j].id # id]
FindByText(l, t) == l[CHOOSE k \in 1..Len(l) :
                       l[k].text = t /\ \A j \in 1..(k - 1) : l[j].text # t]

\* The state of the two views after their first render
\* (VocabularyList.tsx lines 26-48, WordSearch.tsx line 20).
InitUi ==
    [view |-> "library", selectedWords |-> {}, lookedUpWord |-> Null,
     isLookingUp |-> FALSE, modal |-> FALSE, lookups |-> {},
     isGenerating |-> FALSE, request |-> <<>>, result |-> Null]

\* A first start: nothing stored yet.
InitLibrary ==
    /\ InitView
    /\ call = NoCall
    /\ ui = InitUi
    /\ app = [pc |-> "start", words |-> <<>>, stories |-> <<>>,
              setW |-> NoUpdate, setS |-> NoUpdate,
              words_ls |-> Absent, stories_ls |-> Absent,
              initial |-> Forgotten, fresh |-> TRUE]

\* crypto.randomUUID(): a value nothing in the application holds.  The
\* values are interchangeable, so one of the unused ones stands for all.
Unused(u) ==
    /\ u \notin WordIds(app.words)
    /\ u \notin ui.selectedWords
    /\ ~(IsWord(ui.result) /\ ui.result.id = u)
    /\ ~(IsWord(ui.lookedUpWord) /\ "id" \in DOMAIN ui.lookedUpWord
           /\ ui.lookedUpWord.id = u)
    /\ \A k \in 1..Len(ui.request) : ui.request[k] # u
randomUUID == CHOOSE u \in UUIDs : Unused(u)

\* The search view as the collection sees it: handleSearch (WordSearch.tsx
\* lines 50-67) with its request answered.
SearchResult(t) ==
    /\ app.pc = "settled"
    /\ \E u \in UUIDs : Unused(u)
    /\ ui' = [ui EXCEPT !.result =
                 [id |-> randomUUID, text |-> t, groups |-> "undefined"]]
    /\ UNCHANGED <<view, call, app>>

\* handleAdd (WordSearch.tsx lines 119-129)
handleAdd ==
    /\ IsWord(ui.result)
    /\ ui.result.text \notin TextsOf(app.words)
    /\ handleAddWord(ui.result)

\* handleWordClick (VocabularyList.tsx lines 264-279), on a word of a shown
\* story; the modal covers the story while it is open.
handleWordClick(t) ==
    /\ app.pc = "settled"
    /\ app.stories # <<>>
    /\ ~ui.modal
    /\ ui' = IF t \in TextsOf(app.words)
             THEN [ui EXCEPT !.lookedUpWord = FindByText(app.words, t),
                             !.modal = TRUE]
             ELSE [ui EXCEPT !.lookedUpWord = [text |-> t], !.modal = TRUE,
                             !.isLookingUp = TRUE, !.lookups = @ \cup {t}]
    /\ UNCHANGED <<view, call, app>>

\* lines 282-283 and 289: the lookup is answered.
LookupResolved(t) ==
    /\ t \in ui.lookups
    /\ ui' = [ui EXCEPT !.lookups = @ \ {t},
                        !.lookedUpWord = [text |-> t, id |-> "temp"],
                        !.isLookingUp = FALSE]
    /\ UNCHANGED <<view, call, app>>

\* lines 284-289: the lookup fails.
LookupFailed(t) ==
    /\ t \in ui.lookups
    /\ ui' = [ui EXCEPT !.lookups = @ \ {t}, !.lookedUpWord = Null,
                        !.modal = FALSE, !.isLookingUp = FALSE]
    /\ UNCHANGED <<view, call, app>>

\* setModalPosition(null)   (lines 696 and 705)
CloseModal ==
    /\ ui.modal
    /\ ui' = [ui EXCEPT !.modal = FALSE]
    /\ UNCHANGED <<view, call, app>>

\* handleSaveLookedUpWord (lines 293-310), from the button of lines 734-736.
handleSaveLookedUpWord ==
    /\ ui.modal
    /\ ~ui.isLookingUp
    /\ IsWord(ui.lookedUpWord)
    /\ ui.lookedUpWord.text \notin TextsOf(app.words)
    /\ \E u \in UUIDs : Unused(u)
    /\ handleAddWord(Spread([id |-> randomUUID, groups |-> "undefined"],
                            ui.lookedUpWord))

\* toggleSelection (lines 76-81), on a listed word.
toggleSelection(id) ==
    /\ app.pc = "settled"
    /\ id \in WordIds(app.words)
    /\ ui' = [ui EXCEPT !.selectedWords =
                 IF id \in @ THEN @ \ {id} ELSE @ \cup {id}]
    /\ UNCHANGED <<view, call, app>>

\* The remove button of a listed word (line 561).
RemoveWord(id) ==
    /\ id \in WordIds(app.words)
    /\ handleRemoveWord(id)

\* handleAddToGroup (lines 84-99) with the group name "g".
handleAddToGroup ==
    /\ app.pc = "settled"
    /\ ui.selectedWords # {}
    /\ LET hit == {id \in ui.selectedWords :
                     /\ id \in WordIds(app.words)
                     /\ FindById(app.words, id).groups # "g"}
           l == [k \in 1..Len(app.words) |->
                   IF app.words[k].id \in hit
                   THEN [app.words[k] EXCEPT !.groups = "g"]
                   ELSE app.words[k]]
       IN  app' = IF hit = {} THEN app ELSE MutateWords(app, l)
    /\ ui' = [ui EXCEPT !.selectedWords = {}]
    /\ UNCHANGED <<view, call>>

\* handleGenerateStory up to its await (lines 110-116); request: the ids of
\* the words handed to generateStoryFromWords.
handleGenerateStory ==
    /\ app.pc = "settled"
    /\ ui.selectedWords # {}
    /\ ~ui.isGenerating
    /\ LET selectedWordObjects ==
               SelectSeq(app.words, LAMBDA w : w.id \in ui.selectedWords)
       IN  ui' = [ui EXCEPT !.isGenerating = TRUE,
                     !.request = [k \in 1..Len(selectedWordObjects) |->
                                     selectedWordObjects[k].id]]
    /\ UNCHANGED <<view, call, app>>

\* lines 118-124 and 128: the story arrives, a draft with a new id.
StoryGenerated(id) ==
    /\ app.pc = "settled"
    /\ ui.isGenerating
    /\ id \notin StoryIds(app.stories)
    /\ Len(AddStory(app.stories, [id |-> id, isSaved |-> "false"])) <= MaxItems
    /\ app' = MutateStories(app, AddStory(app.stories, [id |-> id, isSaved |-> "false"]))
    /\ ui' = [ui EXCEPT !.isGenerating = FALSE, !.request = <<>>]
    /\ UNCHANGED <<view, call>>

\* lines 125-128: the generation fails.
GenerateFailed ==
    /\ ui.isGenerating
    /\ ui' = [ui EXCEPT !.isGenerating = FALSE, !.request = <<>>]
    /\ UNCHANGED <<view, call, app>>

\* handleSaveStory (lines 158-165), on a shown story.
SaveStory(id) ==
    /\ id \in StoryIds(app.stories)
    /\ handleUpdateStory(id, "true")

\* The delete button of a shown saved story (lines 382-386).
DeleteStory(id) ==
    /\ \E k \in 1..Len(app.stories) :
          app.stories[k].id = id /\ IsSavedStory(app.stories[k])
    /\ handleRemoveStory(id)

\* The vocabulary view with words that come from the search view.
NextLibrary ==
    \/ Mount
    \/ Rerender
    \/ \E t \in WordTexts : SearchResult(t)
    \/ handleAdd
    \/ \E id \in UUIDs : toggleSelection(id)
    \/ \E id \in UUIDs : RemoveWord(id)
    \/ handleAddToGroup
    \/ handleGenerateStory
    \/ \E id \in Ids : StoryGenerated(id)
    \/ GenerateFailed
    \/ \E id \in Ids : SaveStory(id)
    \/ \E id \in Ids : DeleteStory(id)

SpecLibrary == InitLibrary /\ [][NextLibrary]_vars

\* An earlier run left one saved story, whose words can be looked up.
InitLookup ==
    /\ InitView
    /\ call = NoCall
    /\ ui = InitUi
    /\ app = [pc |-> "start", words |-> <<>>, stories |-> <<>>,
              setW |-> NoUpdate, setS |-> NoUpdate,
              words_ls |-> Item(<<>>),
              stories_ls |-> Item(stringifyStories(<<[id |-> 1, isSaved |-> "true"]>>)),
              initial |-> Forgotten, fresh |-> TRUE]

\* The two ways a word is added, and its removal.
NextLookup ==
    \/ Mount
    \/ Rerender
    \/ \E t \in WordTexts : SearchResult(t)
    \/ handleAdd
    \/ \E t \in WordTexts : handleWordClick(t)
    \/ \E t \in WordTexts : LookupResolved(t)
    \/ \E t \in WordTexts : LookupFailed(t)
    \/ CloseModal
    \/ handleSaveLookedUpWord
    \/ \E id \in UUIDs \cup {"temp"} : RemoveWord(id)

SpecLookup == InitLookup /\ [][NextLookup]_vars

\* The lists the next render shows.
CurStories(a) == IF a.setS.has THEN a.setS.val ELSE a.stories
CurWords(a) == IF a.setW.has THEN a.setW.val ELSE a.words

DraftsOf(l) == {k \in 1..Len(l) : l[k].isSaved # "true"}
SavedOf(l) == {l[k] : k \in {j \in 1..Len(l) : l[j].isSaved = "true"}}

\* C21 (SpecLibrary): the stories in memory and the stored stories have at
\* most one draft; adding a draft leaves it the only draft and keeps every
\* saved story, and saving a story removes no saved story.
C21_AtMostOneDraft ==
    /\ [](/\ Cardinality(DraftsOf(CurStories(app))) <= 1
          /\ Cardinality(DraftsOf(app.stories)) <= 1
          /\ Cardinality(DraftsOf(parseStories(app.stories_ls.doc))) <= 1)
    /\ [][\A id \in Ids :
            /\ StoryGenerated(id)
                 => /\ DraftsOf(CurStories(app')) = {1}
                    /\ CurStories(app')[1].id = id
                    /\ SavedOf(CurStories(app')) = SavedOf(app.stories)
            /\ SaveStory(id)
                 => SavedOf(app.stories) \subseteq SavedOf(CurStories(app'))]_vars

\* A draft was generated beside a saved story while another draft was there.
C21_Witness ==
    /\ app.pc = "settled"
    /\ Len(app.stories) = 2
    /\ app.stories[1].isSaved = "false"
    /\ app.stories[2].isSaved = "true"
    /\ app.stories_ls = Item(stringifyStories(app.stories))

\* C25 (SpecLookup): the words of the collection have pairwise distinct
\* ids, whatever was added from the search view and from the lookup modal.
C25_DistinctWordIds ==
    \A k, j \in 1..Len(CurWords(app)) :
        k # j => CurWords(app)[k].id # CurWords(app)[j].id

\* C26 (SpecLibrary): every selected id is the id of a word of the
\* collection, and generateStoryFromWords is called with at least one word.
C26_SelectionWithinWords ==
    /\ [](ui.selectedWords \subseteq WordIds(CurWords(app)))
    /\ [][(~ui.isGenerating /\ ui'.isGenerating) => ui'.request # <<>>]_vars

\* ------------------------------------------ WordSearch.tsx: the search view
MaxMessages == 3      \* messages of the longest tutor chat

\* What generateWordImage answers for a text: an image of it, or null.
Images(text) == {text, "null"}
IsChat(c) == "word" \in DOMAIN c

\* The search view after its first render (WordSearch.tsx lines 17-28).
\* images: the texts of the fetchImage calls not yet answered; arrived
\* (history): what the last answered fetchImage did with its image.
InitSearch ==
    /\ InitView
    /\ call = NoCall
    /\ app = NoApp
    /\ ui = [view |-> "search", result |-> Null, isSearching |-> FALSE,
             searchTerm |-> "", images |-> {}, isGeneratingImage |-> FALSE,
             activeMeaningIndex |-> 0, chatSession |-> Null,
             chatMessages |-> 0, isChatLoading |-> FALSE, arrived |-> "-"]

\* The effect of lines 32-41, which runs after a render whose result is
\* another object than that of the render before.
ResultEffect(u) ==
    IF IsWord(u.result)
    THEN [u EXCEPT !.activeMeaningIndex = 0,
                   !.chatSession = [word |-> u.result.id, sent |-> 0],
                   !.chatMessages = 1]
    ELSE u

\* handleSearch up to its await (lines 50-58); the button is disabled while
\* a search is under way (line 151).
handleSearch(t) ==
    /\ ~ui.isSearching
    /\ ui' = [ui EXCEPT !.isSearching = TRUE, !.searchTerm = t, !.arrived = "-"]
    /\ UNCHANGED <<view, call, app>>

\* lines 60-70 and 77: the lookup is answered; fetchImage runs up to its
\* await (lines 82-84).
SearchAnswered ==
    /\ ui.isSearching
    /\ LET id == CHOOSE u \in UUIDs : ~(IsWord(ui.result) /\ ui.result.id = u)
           newWord == [id |-> id, text |-> ui.searchTerm, imageUrl |-> "null"]
       IN  ui' = ResultEffect([ui EXCEPT !.result = newWord,
                                         !.isSearching = FALSE,
                                         !.isGeneratingImage = TRUE,
                                         !.images = @ \cup {newWord.text}])
    /\ UNCHANGED <<view, call, app>>

\* lines 72-77: the lookup fails.
SearchFailed ==
    /\ ui.isSearching
    /\ ui' = ResultEffect([ui EXCEPT !.result = Null, !.isSearching = FALSE])
    /\ UNCHANGED <<view, call, app>>

\* The buttons of lines 297 and 308, shown while no image is generated.
RegenerateImage ==
    /\ IsWord(ui.result)
    /\ ~ui.isGeneratingImage
    /\ ui' = [ui EXCEPT !.isGeneratingImage = TRUE,
                        !.images = @ \cup {ui.result.text}, !.arrived = "-"]
    /\ UNCHANGED <<view, call, app>>

\* Mutant of SameWord: the image is attached to whatever word is shown.
AnyWord(prev, text) == IsWord(prev)

\* prev && prev.text === word.text   (line 86)
SameWord(prev, text) == IsWord(prev) /\ prev.text = text

\* lines 84-88: generateWordImage answers the fetchImage of the word with
\* that text; a new result object makes the effect of lines 32-41 run.
ImageArrived(text, base64Image) ==
    /\ text \in ui.images
    /\ LET u == [ui EXCEPT !.images = @ \ {text}, !.isGeneratingImage = FALSE]
       IN  ui' = IF SameWord(ui.result, text)
                 THEN ResultEffect([u EXCEPT !.result.imageUrl = base64Image,
                                             !.arrived = "attached"])
                 ELSE [u EXCEPT !.arrived = "dropped"]
    /\ UNCHANGED <<view, call, app>>

\* A tab of lines 204-207.
setActiveMeaningIndex(idx) ==
    /\ IsWord(ui.result)
    /\ idx # ui.activeMeaningIndex
    /\ ui' = [ui EXCEPT !.activeMeaningIndex = idx, !.arrived = "-"]
    /\ UNCHANGED <<view, call, app>>

\* handleSendChat up to its await (lines 99-109); the form is disabled
\* while an answer is awaited (line 362).
handleSendChat ==
    /\ IsChat(ui.chatSession)
    /\ ~ui.isChatLoading
    /\ ui.chatMessages < MaxMessages
    /\ ui' = [ui EXCEPT !.chatMessages = @ + 1, !.chatSession.sent = @ + 1,
                        !.isChatLoading = TRUE, !.arrived = "-"]
    /\ UNCHANGED <<view, call, app>>

\* lines 110 and 114: the tutor answers.
ChatAnswered ==
    /\ ui.isChatLoading
    /\ ui.chatMessages < MaxMessages
    /\ ui' = [ui EXCEPT !.chatMessages = @ + 1, !.isChatLoading = FALSE]
    /\ UNCHANGED <<view, call, app>>

\* lines 111-114: the message fails.
ChatFailed ==
    /\ ui.isChatLoading
    /\ ui' = [ui EXCEPT !.isChatLoading = FALSE]
    /\ UNCHANGED <<view, call, app>>

NextSearch ==
    \/ \E t \in WordTexts : handleSearch(t)
    \/ SearchAnswered
    \/ SearchFailed
    \/ RegenerateImage
    \/ \E t \in WordTexts : \E i \in Images(t) : ImageArrived(t, i)
    \/ \E idx \in {0, 1} : setActiveMeaningIndex(idx)
    \/ handleSendChat
    \/ ChatAnswered
    \/ ChatFailed

SpecSearch == InitSearch /\ [][NextSearch]_vars

\* C22: the image a result carries was generated for the text of that
\* result, and the answer to a fetchImage for another text than that of the
\* result shown leaves the result as it is.
C22_ImageOfSameWord ==
    /\ []((IsWord(ui.result) /\ ui.result.imageUrl # "null")
            => ui.result.imageUrl = ui.result.text)
    /\ [][\A t \in WordTexts :
            (t \in ui.images /\ t \notin ui'.images
               /\ IsWord(ui.result) /\ ui.result.text # t)
            => ui'.result = ui.result]_vars

\* The image of the word searched first arrived after the second search
\* was answered, and the second result has no image.
C22_Witness ==
    /\ ui.arrived = "dropped"
    /\ IsWord(ui.result)
    /\ ui.result.imageUrl = "null"
    /\ ui.images = {ui.result.text}

\* C28: as long as the result is the same looked-up word, the chat session
\* and its messages are kept, and a change of the result leaves the
\* selected meaning as it is.
C28_TutorStateKept ==
    [][(IsWord(ui.result) /\ IsWord(ui'.result) /\ ui'.result.id = ui.result.id)
        => /\ ui'.chatSession.word = ui.chatSession.word
           /\ ui'.chatSession.sent >= ui.chatSession.sent
           /\ ui'.chatMessages >= ui.chatMessages
           /\ (ui'.result # ui.result
                 => ui'.activeMeaningIndex = ui.activeMeaningIndex)]_vars

\* ------------------------- PracticeMode.tsx: the pronunciation trainer
\* A word a closure or a result refers to, or undefined / null.
NoWordRef == [has |-> FALSE, id |-> 0]
WordRef(id) == [has |-> TRUE, id |-> id]

\* array[index]: the element, or undefined beyond the end.
WordAt(l, index) == IF index < Len(l) THEN WordRef(l[index + 1].id) ELSE NoWordRef

\* The trainer after its first render (PracticeMode.tsx lines 28, 39-41)
\* over an empty collection.  recorded: words[currentIndex] of the render
\* whose startRecording made the recorder.
InitPractice ==
    /\ InitView
    /\ call = NoCall
    /\ app = [pc |-> "start", words |-> <<>>, stories |-> <<>>,
              setW |-> NoUpdate, setS |-> NoUpdate,
              words_ls |-> Absent, stories_ls |-> Absent,
              initial |-> Forgotten, fresh |-> TRUE]
    /\ ui = [view |-> "practice", currentIndex |-> 0, isRecording |-> FALSE,
             isEvaluating |-> FALSE, pronunciationResult |-> NoWordRef,
             recorded |-> NoWordRef]

\* A word is added in one of the other views, with a new id.
AddWord(w) ==
    /\ w.id \notin WordIds(app.words)
    /\ handleAddWord(w)

\* nextPronunciationWord (lines 153-156), from the button of line 457 that
\* is shown while there are words (line 397).
nextPronunciationWord ==
    /\ app.pc = "settled"
    /\ Len(app.words) > 0
    /\ ui' = [ui EXCEPT !.pronunciationResult = NoWordRef,
                        !.currentIndex = (@ + 1) % Len(app.words)]
    /\ UNCHANGED <<view, call, app>>

\* startRecording (lines 105-124) with the microphone granted.
startRecording ==
    /\ app.pc = "settled"
    /\ Len(app.words) > 0
    /\ ~ui.isRecording
    /\ ~ui.isEvaluating
    /\ ui' = [ui EXCEPT !.isRecording = TRUE, !.pronunciationResult = NoWordRef,
                        !.recorded = WordAt(app.words, ui.currentIndex)]
    /\ UNCHANGED <<view, call, app>>

\* stopRecording (lines 131-136) and the recorder's onstop up to the first
\* await of handleEvaluation (lines 116-118, 139-141).
stopRecording ==
    /\ app.pc = "settled"
    /\ Len(app.words) > 0
    /\ ui.isRecording
    /\ ui' = [ui EXCEPT !.isRecording = FALSE, !.isEvaluating = TRUE]
    /\ UNCHANGED <<view, call, app>>

\* handleEvaluation after its awaits (lines 142-150): the result for the
\* recorded word, or the TypeError of currentWord.text caught at line 145.
handleEvaluation ==
    /\ ui.isEvaluating
    /\ ui' = [ui EXCEPT !.isEvaluating = FALSE,
                        !.pronunciationResult =
                            IF ui.recorded.has THEN ui.recorded ELSE @]
    /\ UNCHANGED <<view, call, app>>

\* lines 145-150: the evaluation request fails.
EvaluationFailed ==
    /\ ui.isEvaluating
    /\ ui' = [ui EXCEPT !.isEvaluating = FALSE]
    /\ UNCHANGED <<view, call, app>>

NextPractice ==
    \/ Mount
    \/ Rerender
    \/ \E w \in Words : AddWord(w)
    \/ \E id \in Ids : RemoveWord(id)
    \/ nextPronunciationWord
    \/ startRecording
    \/ stopRecording
    \/ handleEvaluation
    \/ EvaluationFailed

SpecPractice == InitPractice /\ [][NextPractice]_vars

\* C29: in every render with words, currentIndex is the index of a word.
C29_IndexInRange ==
    (app.pc = "settled" /\ Len(app.words) > 0)
        => (0 <= ui.currentIndex /\ ui.currentIndex < Len(app.words))

\* ------------------------------------ status, index and sessions at rest
\* C23: when nothing is pending and the status is idle, the current
\* sentence index is -1.
C23_IdleIndexReset ==
    (Settled /\ playbackState = "idle") => currentSentenceIdx = -1

\* C24: when nothing is pending and the status is 'playing' or 'paused',
\* exactly one invocation of handlePlayStory is in its loop.
C24_OneLiveSession ==
    (Settled /\ playbackState \in {"playing", "paused"})
        => Cardinality({s \in Sessions : InLoop(s)}) = 1

\* ------------------------------------------- the story that is displayed
WordText == <<"a">>
ReaderStories == {StoryText(1), StoryText(MaxSentences)}

\* No story is displayed yet (shown: contentLearning of the story of the
\* StoryCard of line 597 or 619, <<>> when there is none).
InitReader ==
    /\ InitView
    /\ call = NoCall
    /\ app = NoApp
    /\ ui = [view |-> "reader", shown |-> <<>>]

\* Another story comes to be displayed: a new draft, a tab (lines 577,
\* 584) or a story of the library list (line 633).
ViewStory(text) ==
    /\ text # ui.shown
    /\ ui' = [ui EXCEPT !.shown = text]
    /\ UNCHANGED <<view, call, app>>

\* The play button of the displayed story, rendered unless the status is
\* 'playing' (lines 408-415).
PlayShown(created) ==
    /\ ui.shown # <<>>
    /\ playbackState # "playing"
    /\ Play(ui.shown, created)

\* The speaker button of the lookup modal over the displayed story
\* (line 721): handlePlayStory(lookedUpWord.text).
PlayWord(created) ==
    /\ ui.shown # <<>>
    /\ Play(WordText, created)

NextReader ==
    \/ \E text \in ReaderStories : ViewStory(text)
    \/ \E created \in BOOLEAN : PlayShown(created)
    \/ \E created \in BOOLEAN : PlayWord(created)
    \/ Stop
    \/ Pause
    \/ CtxResolve
    \/ \E s \in 1..MaxSessions, created \in BOOLEAN : GraceTimer(s, created)
    \/ \E s \in 1..MaxSessions, r \in Responses, started \in BOOLEAN :
          SpeechResolved(s, r, started)
    \/ \E src \in sources : SourceEnded(src)

SpecReader == InitReader /\ [][NextReader]_vars

\* isCurrentSentence of sentence sIdx of the displayed story (lines 314-316)
isCurrentSentence(sIdx) ==
    /\ sIdx < Len(splitSentences(ui.shown))
    /\ playbackState # "idle"
    /\ currentSentenceIdx = sIdx

\* C27: a highlighted sentence of the displayed story is the sentence that
\* a session narrating the text of that story is fetching or playing.
C27_HighlightIsNarrated ==
    \A sIdx \in 0..(MaxSentences - 1) :
        isCurrentSentence(sIdx)
            => \E s \in Sessions :
                  InLoop(s) /\ sess[s].text = ui.shown /\ sess[s].i = sIdx
====
